---- MODULE Spec2Model ----
(***************************************************************************)
(* Sfiya.ai auto-reply decision pipeline (src/ai/reply.ts).                *)
(*                                                                         *)
(* The model follows generateReplyHandler await by await.  The Supabase    *)
(* tables (auto_reply_settings, brand_voice, comments, auto_replies) are  *)
(* the shared state; the OpenAI backend and the outcome of every ledger    *)
(* call are inputs chosen by the environment.  The handlers that write     *)
(* the tables the pipeline reads are modelled with it: the two update      *)
(* handlers of reply.ts, and signUpHandler with the one-time codes of      *)
(* src/unnamed/part_003.                                                   *)
(*                                                                         *)
(* JavaScript values are encoded as strings: JsTrue, JsFalse, JsNull and   *)
(* JsUndefined stand for true, false, null and undefined; every other      *)
(* string is a JavaScript string.  Scores are integers in tenths           *)
(* (5 = 0.5), NoScore is an absent score.                                  *)
(***************************************************************************)
EXTENDS Integers, Sequences, FiniteSets, TLC

\* ---------------------------------------------------------------- bounds
\* invocations of generateReplyHandler started in one behaviour
MaxInvocations == 1

\* ledger calls that fail in one behaviour
MaxFaults == 1

\* invocations in a behaviour of repeated passes
MaxPasses == 2

\* how many times the user calls an update handler while requests are served
MaxUpdates == 1

\* calls of verifyOTP in one behaviour
MaxOtpCalls == 2

\* rows of otp_tokens in one behaviour of the one-time codes
MaxOtpTokens == 2

\* calls of signUpHandler in one behaviour
MaxSignUps == 1

\* how far the clock of the one-time codes runs, in lifetimes of a token
MaxClock == 2

\* ------------------------------------------------------- JavaScript values
JsTrue == "true"

JsFalse == "false"

JsNull == "null"

JsUndefined == "undefined"

NoScore == -1

\* v is falsy in JavaScript (false, null, undefined, the empty string)
Falsy(v) == v \in {JsFalse, JsNull, JsUndefined, ""}

Truthy(v) == ~Falsy(v)

\* the strings that stand for a JavaScript array: ["yo"]
JsArrays == {"[yo]"}

\* v.join exists: of the values of this model only arrays have it
HasJoin(v) == v \in JsArrays

\* a || b
OrElse(a, b) == IF Truthy(a) THEN a ELSE b

\* a || b for a number-or-undefined a: 0 and undefined are falsy
ScoreOrElse(a, b) == IF a = NoScore \/ a = 0 THEN b ELSE a

\* ------------------------------------------------------------ the domains
Procs == {1, 2}

Users == {"u1"}

CommentIds == {"c1", "c2"}

Platforms == {"instagram", "youtube"}

Sentiments == {"positive", "negative", "neutral", "question", "spam", "hate"}

\* the requests a caller can send: req.body of generateReplyHandler
Requests ==
  [comment_id   : CommentIds,
   user_id      : Users,
   comment_text : {"I love this!!"},
   platform     : Platforms]

\* line 200 takes the four fields from req.body as they come: the bodies in
\* which exactly one of them is missing
IncompleteRequests ==
  LET Fields == {"comment_id", "user_id", "comment_text", "platform"} IN
  {[r EXCEPT ![f] = JsUndefined] : r \in Requests, f \in Fields}

\* rows of auto_reply_settings; signUpHandler leaves ignore_hate_comments
\* and catchphrases unset, updateBrandVoiceHandler stores the catchphrases of
\* the body as they come (lines 400-409): here a string
SettingsRows ==
  [user_id              : {"u1"},
   default_tone         : {"hype"},
   default_language     : {"hindi"},
   auto_like_positive   : {JsTrue, JsFalse},
   ignore_spam          : {JsTrue, JsFalse},
   ignore_hate_comments : {JsTrue, JsFalse, JsNull},
   catchphrases         : {JsNull, "yo"}]

\* the rows no call of updateBrandVoiceHandler has touched
PlainSettingsRows == {r \in SettingsRows : r.catchphrases = JsNull}

\* the rows of a user who kept the gate flags of signUpHandler (part_003
\* lines 159-160) and has since stored a brand voice
VoicedSettingsRows ==
  {r \in SettingsRows : /\ r.catchphrases # JsNull
                        /\ r.ignore_spam = JsTrue
                        /\ r.ignore_hate_comments = JsNull}

\* the rows of table brand_voice
BrandVoiceRows == [user_id : {"u1"}, brand_name : {"Sfiya", "Sfiya.ai"}]

\* rows whose default_tone or default_language is null or empty: the update
\* handler stores what the body carries (lines 337-352)
LooseSettingsRows ==
  [user_id              : {"u1"},
   default_tone         : {"hype", JsNull, ""},
   default_language     : {"hindi", JsNull, ""},
   auto_like_positive   : {JsTrue},
   ignore_spam          : {JsTrue},
   ignore_hate_comments : {JsTrue},
   catchphrases         : {JsNull}]

\* -------------------------------------------------- the generative backend
\* What openai.chat.completions.create can do for one call: reject
\* (transport error, timeout), resolve with no choices, or resolve with a
\* message whose content is null, empty, not JSON, the JSON literal null, or
\* a JSON object with the given sentiment and score members (JsUndefined /
\* NoScore when the member is absent).
ClassifierOutputs ==
  [kind : {"throw", "no_choices", "null_content", "empty_content",
           "garbage", "json_null"},
   sentiment : {JsUndefined}, score : {NoScore}]
  \cup
  [kind : {"object"},
   sentiment : Sentiments \cup {JsUndefined, "mixed"},
   score : {NoScore, 0, 9, 15}]

\* the outputs generateReplyHandler is driven with: every failure and every
\* contentless answer, and one well-formed object per branch of the handler
HandlerClassifierOutputs ==
  {o \in ClassifierOutputs :
     \/ o.kind # "object"
     \/ o.sentiment \in {"positive", "question", "spam", "hate"} /\ o.score = 9}

\* the outputs for which the call fails or its content is no JSON object:
\* a rejected call, no choices, no content, text that is not JSON, null
ClassifierFailures == {o \in ClassifierOutputs : o.kind # "object"}

\* response.choices[0].message.content || "{}", then JSON.parse: the members
\* of the parsed object, or threw = TRUE when a step on the way throws
ParseContent(out) ==
  CASE out.kind \in {"throw", "no_choices", "garbage", "json_null"} ->
         [threw |-> TRUE, sentiment |-> JsUndefined, score |-> NoScore]
    [] out.kind \in {"null_content", "empty_content"} ->
         [threw |-> FALSE, sentiment |-> JsUndefined, score |-> NoScore]
    [] OTHER ->
         [threw |-> FALSE, sentiment |-> out.sentiment, score |-> out.score]

\* analyzeSentiment without its catch block
analyzeSentimentNoCatch(out) ==
  LET parsed == ParseContent(out) IN
  [raised |-> parsed.threw,
   sentiment |-> OrElse(parsed.sentiment, "neutral"),
   score     |-> ScoreOrElse(parsed.score, 5)]

\* lines 24-67; raised = TRUE would be an exception leaving the function
analyzeSentiment(out) ==
  LET parsed == ParseContent(out) IN
  IF parsed.threw
    THEN [raised |-> FALSE, sentiment |-> "neutral", score |-> 5]
    ELSE [raised |-> FALSE,
          sentiment |-> OrElse(parsed.sentiment, "neutral"),
          score     |-> ScoreOrElse(parsed.score, 5)]

\* the generation backend: content of the reply message
GeneratorOutputs ==
  [kind : {"throw", "no_choices"}, text : {JsUndefined}]
  \cup [kind : {"content"}, text : {JsNull, "", "Love it!"}]

\* the outputs generateReplyHandler is driven with
HandlerGeneratorOutputs ==
  {o \in GeneratorOutputs : o.kind = "throw" \/ o.text = "Love it!"}

\* the outputs for which generateReply has no content to read
GeneratorFailures == {o \in GeneratorOutputs : o.kind \in {"throw", "no_choices"}}

\* line 144 (the emoji that ends both fallbacks is left out)
FallbackOnEmpty == "Thanks for the comment!"

\* line 147
FallbackOnError == "Thanks for your comment!"

\* generateReply returning the content as it came
generateReplyNoFallback(promptThrew, out) ==
  IF promptThrew \/ out.kind \in {"throw", "no_choices"}
    THEN [raised |-> FALSE, text |-> FallbackOnError]
    ELSE [raised |-> FALSE, text |-> out.text]

\* line 113: building the prompt calls catchphrases.join when the settings
\* row read at lines 88-92 has a truthy catchphrases; rows is that read
PromptThrows(rows) ==
  \E r \in rows : Truthy(r.catchphrases) /\ ~HasJoin(r.catchphrases)

\* lines 73-149; promptThrew is TRUE when building the prompt threw, and then
\* the backend is not called
generateReply(promptThrew, out) ==
  IF promptThrew \/ out.kind \in {"throw", "no_choices"}
    THEN [raised |-> FALSE, text |-> FallbackOnError]
    ELSE [raised |-> FALSE, text |-> OrElse(out.text, FallbackOnEmpty)]

\* the lead-detection backend
LeadOutputs ==
  [kind : {"throw", "no_choices", "null_content", "empty_content",
           "garbage", "json_null"},
   is_lead : {JsUndefined}, temperature : {JsUndefined}]
  \cup
  [kind : {"object"},
   is_lead : {JsTrue, JsFalse, JsUndefined},
   temperature : {"hot", "warm", JsUndefined}]

HandlerLeadOutputs ==
  {o \in LeadOutputs :
     \/ o.kind # "object"
     \/ o.is_lead = JsTrue /\ o.temperature = "hot"
     \/ o.is_lead = JsFalse /\ o.temperature = "warm"}

\* the outputs for which the call fails or its content is no JSON object
LeadFailures == {o \in LeadOutputs : o.kind # "object"}

\* detectSalesLead without its catch block
detectSalesLeadNoCatch(out) ==
  IF out.kind \in {"throw", "no_choices", "garbage", "json_null"}
    THEN [raised |-> TRUE, is_lead |-> JsFalse, temperature |-> "cold"]
    ELSE [raised |-> FALSE,
          is_lead     |-> OrElse(out.is_lead, JsFalse),
          temperature |-> OrElse(out.temperature, "cold")]

\* lines 155-192
detectSalesLead(out) ==
  IF out.kind \in {"throw", "no_choices", "garbage", "json_null"}
    THEN [raised |-> FALSE, is_lead |-> JsFalse, temperature |-> "cold"]
    ELSE IF out.kind \in {"null_content", "empty_content"}
      THEN [raised |-> FALSE, is_lead |-> JsFalse, temperature |-> "cold"]
      ELSE [raised |-> FALSE,
            is_lead     |-> OrElse(out.is_lead, JsFalse),
            temperature |-> OrElse(out.temperature, "cold")]

\* ------------------------------------------------------------- the ledgers
\* the outcomes of a ledger call whose result the code may or may not inspect
WriteOutcomes == {"ok", "error"}

\* a comments row as the ingestion collaborator creates it
NewComment ==
  [sentiment |-> JsNull, sentiment_score |-> NoScore,
   is_liked |-> FALSE, auto_reply_status |-> "pending"]

\* an update without its .eq("id", id) filter: every row is written
UpdateCommentAllRows(rows, id, fields, outcome) ==
  IF outcome = "ok"
    THEN [c \in DOMAIN rows |->
            [f \in DOMAIN rows[c] |->
               IF f \in DOMAIN fields THEN fields[f] ELSE rows[c][f]]]
    ELSE rows

\* supabase.from("comments").update(fields).eq("id", id): the rows after the
\* call; nothing changes when the call fails or no row has that id
UpdateComment(rows, id, fields, outcome) ==
  IF outcome = "ok" /\ id \in DOMAIN rows
    THEN [rows EXCEPT ![id] =
            [f \in DOMAIN rows[id] |->
               IF f \in DOMAIN fields THEN fields[f] ELSE rows[id][f]]]
    ELSE rows

\* .eq("user_id", u).single() on auto_reply_settings: the matching rows
SettingsOf(rows, u) == {r \in rows : r.user_id = u}

\* SingleError without the test of the error member
SingleErrorDataOnly(matching, outcome) == Cardinality(matching) # 1

\* .single() answers an error unless exactly one row matches
SingleError(matching, outcome) == outcome = "error" \/ Cardinality(matching) # 1

Row(S) == CHOOSE r \in S : TRUE

\* ------------------------------------------------------------- responses
NoReply ==
  [id |-> 0, text |-> "", tone |-> "", language |-> "", sentiment |-> "",
   is_sales_lead |-> "", lead_temperature |-> ""]

NoResponse ==
  [sent |-> 0, status |-> 0, success |-> FALSE, action |-> "", reason |-> "",
   error |-> "", reply |-> NoReply]

\* res.status(status).json(body): one more response on the wire
Send(r, status, success, action, reason, error, reply) ==
  [sent |-> r.sent + 1, status |-> status, success |-> success,
   action |-> action, reason |-> reason, error |-> error, reply |-> reply]

\* ------------------------------------------------------------------ state
VARIABLES
  settings,      \* table auto_reply_settings: a set of rows
  comments,      \* table comments: id -> row
  auto_replies,  \* table auto_replies: the rows in insertion order, id = index
  pc,            \* per invocation: the await it is suspended at
  req,           \* per invocation: req.body
  loc,           \* per invocation: the handler's local variables
  res,           \* per invocation: what was sent on res
  hist,          \* per invocation: the calls made so far and their outcomes
  started,       \* number of invocations started
  faults,        \* number of ledger calls that failed
  passes,        \* number of invocations the callers make in this behaviour
  payloads,      \* the request bodies the callers send in this behaviour
  classified,    \* per comment: the last classification and what was written
  brand_voice,   \* table brand_voice: a set of rows
  no_row,        \* whether an insert may resolve with neither error nor row
  otp,           \* table otp_tokens and the calls of verifyOTP
  upd,           \* the settings and brand-voice update handlers
  leaf,          \* one call of a leaf service made on its own
  signup         \* table users and the calls of signUpHandler

vars ==
  <<settings, comments, auto_replies, pc, req, loc, res, hist, started, faults,
    passes, payloads, classified, brand_voice, no_row, otp, upd, leaf, signup>>

\* the outcomes the environment can still choose for a ledger call
Outcomes == IF faults < MaxFaults THEN WriteOutcomes ELSE {"ok"}

Fault(outcome) == IF outcome = "ok" THEN faults ELSE faults + 1

\* lines 277-291: what the insert can resolve with; "no_row" is data and
\* error both null
InsertOutcomes ==
  Outcomes \cup (IF no_row /\ faults < MaxFaults THEN {"no_row"} ELSE {})

NoLocals ==
  [settings |-> {}, sentiment |-> JsUndefined, sentiment_score |-> NoScore,
   gen_settings |-> {}, gen_tone |-> JsUndefined, gen_language |-> JsUndefined,
   brandVoice |-> {}, reply_text |-> "", autoReply |-> 0,
   is_lead |-> JsUndefined, temperature |-> JsUndefined]

NoHistory ==
  [calls |-> <<>>, failed_calls |-> {}, classify_failed |-> FALSE,
   generate_failed |-> FALSE, lead_failed |-> FALSE,
   inserted |-> 0, failed_writes |-> 0]

NoRequest ==
  [comment_id |-> JsUndefined, user_id |-> JsUndefined,
   comment_text |-> JsUndefined, platform |-> JsUndefined]

\* no leaf call on its own
NoLeaf ==
  [fn |-> "", classifier |-> <<>>, generator |-> <<>>, lead |-> <<>>,
   catchphrases |-> JsNull, returned |-> FALSE, result |-> <<>>]

\* no call of verifyOTP and no token
NoOtp ==
  [tokens |-> <<>>, pc |-> <<>>, code |-> <<>>, found |-> <<>>,
   result |-> <<>>, calls |-> 0, accepted |-> <<>>, sent |-> "none",
   issuing |-> "idle", issue |-> [otp_code |-> "", expires_at |-> 0],
   now |-> <<>>, clock |-> 0]

\* no call of signUpHandler, no user
NoSignUp ==
  [users |-> {}, pc |-> "idle", body |-> <<>>, user |-> JsUndefined,
   status |-> 0, error |-> "", calls |-> 0, allowed |-> 0]

\* the user of the requests has signed up
SignedUp == [NoSignUp EXCEPT !.users = {[id |-> "u1", email |-> "a@b.c"]}]

\* no update handler running, none run so far
NoUpdate ==
  [pc |-> "idle", user |-> JsUndefined, body |-> <<>>, status |-> 0,
   error |-> "", calls |-> 0, allowed |-> 0]

\* the comments, the replies and the invocation slots before the first request
SlotsInit ==
  /\ comments = [c \in CommentIds |-> NewComment]
  /\ auto_replies = <<>>
  /\ req = [p \in Procs |-> NoRequest]
  /\ loc = [p \in Procs |-> NoLocals]
  /\ res = [p \in Procs |-> NoResponse]
  /\ hist = [p \in Procs |-> NoHistory]
  /\ started = 0
  /\ classified = [c \in CommentIds |-> <<>>]

\* the ledgers after the user has signed up: signUpHandler has made the
\* brand_voice row (part_003 lines 166-173)
StoresInit ==
  /\ SlotsInit
  /\ brand_voice = {[user_id |-> "u1", brand_name |-> "Sfiya"]}
  /\ signup = SignedUp

\* the handler serving one request at a time: the second slot is not used
HandlerInit ==
  /\ StoresInit
  /\ pc = [p \in Procs |-> IF p = 1 THEN "idle" ELSE "off"]
  /\ otp = NoOtp
  /\ upd = NoUpdate

\* one pass over a comment, under every policy, with a ledger that may fail
Init ==
  /\ HandlerInit
  /\ settings \in {{}} \cup {{r} : r \in PlainSettingsRows \cup VoicedSettingsRows}
  /\ faults = 0
  /\ passes = MaxInvocations
  /\ payloads = Requests
  /\ no_row = FALSE
  /\ leaf = NoLeaf

Called(p, name) == [hist[p] EXCEPT !.calls = Append(@, name)]

\* the ledger call named name was made and had this outcome
CalledWith(p, name, outcome) ==
  [Called(p, name) EXCEPT
     !.failed_writes = IF outcome = "ok" THEN @ ELSE @ + 1,
     !.failed_calls = IF outcome = "ok" THEN @ ELSE @ \cup {name}]

\* a caller posts a request: generateReplyHandler starts (line 198-200)
Invoke(p) ==
  /\ pc[p] \in {"idle", "done"}
  /\ started < passes
  /\ \E r \in payloads : req' = [req EXCEPT ![p] = r]
  /\ hist' = [hist EXCEPT ![p] = NoHistory]
  /\ pc' = [pc EXCEPT ![p] = "load_settings"]
  /\ loc' = [loc EXCEPT ![p] = NoLocals]
  /\ res' = [res EXCEPT ![p] = NoResponse]
  /\ started' = started + 1
  /\ UNCHANGED <<settings, comments, auto_replies, faults, passes,
                 payloads, classified,
                 brand_voice, no_row, otp, upd, leaf, signup>>

\* lines 202-211: read the settings, answer 404 when there are none
LoadSettings(p) ==
  /\ pc[p] = "load_settings"
  /\ \E outcome \in Outcomes :
       LET matching == SettingsOf(settings, req[p].user_id) IN
       /\ IF SingleError(matching, outcome)
            THEN /\ res' = [res EXCEPT ![p] =
                      Send(@, 404, FALSE, "", "", "Settings not found", NoReply)]
                 /\ pc' = [pc EXCEPT ![p] = "done"]
                 /\ loc' = loc
            ELSE /\ loc' = [loc EXCEPT ![p].settings = matching]
                 /\ pc' = [pc EXCEPT ![p] = "classify"]
                 /\ res' = res
       /\ faults' = Fault(outcome)
  /\ hist' = [hist EXCEPT ![p] = Called(p, "settings.select")]
  /\ UNCHANGED <<settings, comments, auto_replies, req, started, passes,
                 payloads, classified,
                 brand_voice, no_row, otp, upd, leaf, signup>>

\* line 293: the message of the error the ledger resolves a refused insert with
InsertErrorDetail == "duplicate key value violates unique constraint"

\* line 312: the message of the TypeError of autoReply.id when autoReply is null
NullRowErrorDetail == "Cannot read properties of null (reading 'id')"

\* a catch block that answers with the message of what it caught
OnThrowWithDetail(p) ==
  /\ res' = [res EXCEPT ![p] =
       Send(@, 500, FALSE, "", "",
            IF loc[p].autoReply = 0 /\ pc[p] = "lead_write"
              THEN NullRowErrorDetail ELSE InsertErrorDetail,
            NoReply)]
  /\ pc' = [pc EXCEPT ![p] = "done"]

\* lines 321-324: the catch block of the handler
OnThrow(p) ==
  /\ res' = [res EXCEPT ![p] =
       Send(@, 500, FALSE, "", "", "Failed to generate reply", NoReply)]
  /\ pc' = [pc EXCEPT ![p] = "done"]

\* lines 213-216: const { sentiment, score } = await analyzeSentiment(text)
Classify(p) ==
  /\ pc[p] = "classify"
  /\ \E out \in HandlerClassifierOutputs :
       LET r == analyzeSentiment(out) IN
       /\ IF r.raised
            THEN OnThrow(p) /\ loc' = loc
            ELSE /\ loc' = [loc EXCEPT ![p].sentiment = r.sentiment,
                                       ![p].sentiment_score = r.score]
                 /\ pc' = [pc EXCEPT ![p] = "update_sentiment"]
                 /\ res' = res
       /\ hist' = [hist EXCEPT ![p] =
            [Called(p, "openai.classify") EXCEPT
               !.classify_failed = (out \in ClassifierFailures)]]
  /\ UNCHANGED <<settings, comments, auto_replies, req, started, faults, passes,
                 payloads, classified,
                 brand_voice, no_row, otp, upd, leaf, signup>>

\* one comments.update of the handler; the result of the call is discarded
CommentWrite(p, fields, outcome, name) ==
  /\ comments' = UpdateComment(comments, req[p].comment_id, fields, outcome)
  /\ hist' = [hist EXCEPT ![p] = CalledWith(p, name, outcome)]
  /\ faults' = Fault(outcome)

\* a classification write that keeps a sentiment the comment already has
SentimentFieldsKeepOld(p) ==
  LET id == req[p].comment_id IN
  IF id \in DOMAIN comments /\ comments[id].sentiment # JsNull
    THEN [sentiment |-> comments[id].sentiment,
          sentiment_score |-> loc[p].sentiment_score]
    ELSE [sentiment |-> loc[p].sentiment,
          sentiment_score |-> loc[p].sentiment_score]

\* lines 221-224: the fields of the classification write
SentimentFields(p) ==
  [sentiment |-> loc[p].sentiment, sentiment_score |-> loc[p].sentiment_score]

\* lines 218-225: persist sentiment and score
UpdateSentiment(p) ==
  /\ pc[p] = "update_sentiment"
  /\ \E outcome \in Outcomes :
       CommentWrite(p, SentimentFields(p), outcome, "comments.update.sentiment")
  /\ classified' =
       IF req[p].comment_id \in CommentIds
         THEN [classified EXCEPT ![req[p].comment_id] =
                 [sentiment |-> loc[p].sentiment,
                  sentiment_score |-> loc[p].sentiment_score,
                  written |-> SentimentFields(p),
                  repeated |->
                    /\ classified[req[p].comment_id] # <<>>
                    /\ classified[req[p].comment_id].sentiment = loc[p].sentiment
                    /\ classified[req[p].comment_id].sentiment_score =
                         loc[p].sentiment_score]]
         ELSE classified
  /\ pc' = [pc EXCEPT ![p] = "spam_gate"]
  /\ UNCHANGED <<settings, auto_replies, req, loc, res, started, passes,
                 payloads, brand_voice, no_row, otp, upd, leaf, signup>>

\* a spam gate that does not look at the policy
SpamGateFiresAlways(sentiment, row) == sentiment = "spam"

\* line 228
SpamGateFires(sentiment, row) == sentiment = "spam" /\ Truthy(row.ignore_spam)

\* line 241
HateGateFires(sentiment, row) ==
  sentiment = "hate" /\ Truthy(row.ignore_hate_comments)

\* AutoLikeFires without the platform test of line 258
AutoLikeFiresAnyPlatform(sentiment, row, platform) ==
  sentiment = "positive" /\ Truthy(row.auto_like_positive)

\* lines 255-259
AutoLikeFires(sentiment, row, platform) ==
  sentiment = "positive" /\ Truthy(row.auto_like_positive) /\ platform = "instagram"

\* SpamGate without the return of line 234
SpamGateNoReturn(p) ==
  /\ pc[p] = "spam_gate"
  /\ IF SpamGateFires(loc[p].sentiment, Row(loc[p].settings))
       THEN /\ \E outcome \in Outcomes :
                 CommentWrite(p, [auto_reply_status |-> "ignored"], outcome,
                              "comments.update.ignored")
            /\ res' = [res EXCEPT ![p] =
                 Send(@, 200, TRUE, "ignored", "Spam detected", "", NoReply)]
            /\ pc' = [pc EXCEPT ![p] = "hate_gate"]
       ELSE /\ pc' = [pc EXCEPT ![p] = "hate_gate"]
            /\ UNCHANGED <<comments, hist, res, faults, signup>>
  /\ UNCHANGED <<settings, auto_replies, req, loc, started, passes,
                 payloads, classified,
                 brand_voice, no_row, otp, upd, leaf, signup>>

\* lines 228-239
SpamGate(p) ==
  /\ pc[p] = "spam_gate"
  /\ IF SpamGateFires(loc[p].sentiment, Row(loc[p].settings))
       THEN /\ \E outcome \in Outcomes :
                 CommentWrite(p, [auto_reply_status |-> "ignored"], outcome,
                              "comments.update.ignored")
            /\ res' = [res EXCEPT ![p] =
                 Send(@, 200, TRUE, "ignored", "Spam detected", "", NoReply)]
            /\ pc' = [pc EXCEPT ![p] = "done"]
       ELSE /\ pc' = [pc EXCEPT ![p] = "hate_gate"]
            /\ UNCHANGED <<comments, hist, res, faults, signup>>
  /\ UNCHANGED <<settings, auto_replies, req, loc, started, passes,
                 payloads, classified,
                 brand_voice, no_row, otp, upd, leaf, signup>>

\* HateGate without the return of line 247
HateGateNoReturn(p) ==
  /\ pc[p] = "hate_gate"
  /\ IF HateGateFires(loc[p].sentiment, Row(loc[p].settings))
       THEN /\ \E outcome \in Outcomes :
                 CommentWrite(p, [auto_reply_status |-> "escalated"], outcome,
                              "comments.update.escalated")
            /\ res' = [res EXCEPT ![p] =
                 Send(@, 200, TRUE, "escalated",
                      "Hate comment - escalated to user", "", NoReply)]
            /\ pc' = [pc EXCEPT ![p] = "auto_like"]
       ELSE /\ pc' = [pc EXCEPT ![p] = "auto_like"]
            /\ UNCHANGED <<comments, hist, res, faults, signup>>
  /\ UNCHANGED <<settings, auto_replies, req, loc, started, passes,
                 payloads, classified,
                 brand_voice, no_row, otp, upd, leaf, signup>>

\* lines 241-252
HateGate(p) ==
  /\ pc[p] = "hate_gate"
  /\ IF HateGateFires(loc[p].sentiment, Row(loc[p].settings))
       THEN /\ \E outcome \in Outcomes :
                 CommentWrite(p, [auto_reply_status |-> "escalated"], outcome,
                              "comments.update.escalated")
            /\ res' = [res EXCEPT ![p] =
                 Send(@, 200, TRUE, "escalated",
                      "Hate comment - escalated to user", "", NoReply)]
            /\ pc' = [pc EXCEPT ![p] = "done"]
       ELSE /\ pc' = [pc EXCEPT ![p] = "auto_like"]
            /\ UNCHANGED <<comments, hist, res, faults, signup>>
  /\ UNCHANGED <<settings, auto_replies, req, loc, started, passes,
                 payloads, classified,
                 brand_voice, no_row, otp, upd, leaf, signup>>

\* an auto-like step that answers and ends the invocation, as the gates do
AutoLikeTerminal(p) ==
  /\ pc[p] = "auto_like"
  /\ IF AutoLikeFires(loc[p].sentiment, Row(loc[p].settings), req[p].platform)
       THEN /\ \E outcome \in Outcomes :
                 CommentWrite(p, [is_liked |-> TRUE], outcome,
                              "comments.update.liked")
            /\ res' = [res EXCEPT ![p] =
                 Send(@, 200, TRUE, "liked", "", "", NoReply)]
            /\ pc' = [pc EXCEPT ![p] = "done"]
       ELSE /\ pc' = [pc EXCEPT ![p] = "gen_voice"]
            /\ UNCHANGED <<comments, hist, res, faults, signup>>
  /\ UNCHANGED <<settings, auto_replies, req, loc, started, passes,
                 payloads, classified,
                 brand_voice, no_row, otp, upd, leaf, signup>>

\* lines 254-265
AutoLike(p) ==
  /\ pc[p] = "auto_like"
  /\ IF AutoLikeFires(loc[p].sentiment, Row(loc[p].settings), req[p].platform)
       THEN \E outcome \in Outcomes :
              CommentWrite(p, [is_liked |-> TRUE], outcome, "comments.update.liked")
       ELSE UNCHANGED <<comments, hist, faults, signup>>
  /\ pc' = [pc EXCEPT ![p] = "gen_voice"]
  /\ UNCHANGED <<settings, auto_replies, req, loc, res, started, passes,
                 payloads, classified,
                 brand_voice, no_row, otp, upd, leaf, signup>>

\* lines 81-86: generateReply reads the brand voice of the user; the error
\* of the read is not looked at, a failed read leaves brandVoice null
ReadBrandVoice(p) ==
  /\ pc[p] = "gen_voice"
  /\ \E outcome \in Outcomes :
       LET matching == {r \in brand_voice : r.user_id = req[p].user_id} IN
       /\ loc' = [loc EXCEPT ![p].brandVoice =
                    IF SingleError(matching, outcome) THEN {} ELSE matching]
       /\ faults' = Fault(outcome)
  /\ hist' = [hist EXCEPT ![p] = Called(p, "brand_voice.select")]
  /\ pc' = [pc EXCEPT ![p] = "gen_reads"]
  /\ UNCHANGED <<settings, comments, auto_replies, req, res, started,
                 passes, payloads, classified, brand_voice, no_row, otp, upd,
                 leaf, signup>>

\* lines 88-92: generateReply reads auto_reply_settings again; a failed read
\* leaves settings undefined there
GenerateReplyReads(p) ==
  /\ pc[p] = "gen_reads"
  /\ \E outcome \in Outcomes :
       LET matching == SettingsOf(settings, req[p].user_id) IN
       /\ loc' = [loc EXCEPT ![p].gen_settings =
                    IF SingleError(matching, outcome) THEN {} ELSE matching]
       /\ faults' = Fault(outcome)
  /\ hist' = [hist EXCEPT ![p] = Called(p, "generateReply.settings.select")]
  /\ pc' = [pc EXCEPT ![p] = "gen_call"]
  /\ UNCHANGED <<settings, comments, auto_replies, req, res, started, passes,
                 payloads, classified,
                 brand_voice, no_row, otp, upd, leaf, signup>>

\* lines 95-148 and 268-274: build the prompt and, unless that threw, call
\* the backend; gen_tone and gen_language are the tone and language arguments
\* of lines 271-272
GenerateReplyCall(p) ==
  /\ pc[p] = "gen_call"
  /\ \E out \in HandlerGeneratorOutputs :
       LET promptThrew == PromptThrows(loc[p].gen_settings)
           r == generateReply(promptThrew, out)
       IN
       /\ IF r.raised
         THEN OnThrow(p) /\ loc' = loc
         ELSE /\ loc' = [loc EXCEPT
                   ![p].reply_text = r.text,
                   ![p].gen_tone =
                      OrElse(Row(loc[p].settings).default_tone, "polite"),
                   ![p].gen_language =
                      OrElse(Row(loc[p].settings).default_language, "english")]
              /\ pc' = [pc EXCEPT ![p] = "insert"]
              /\ res' = res
       /\ hist' = [hist EXCEPT ![p] =
            IF promptThrew
              THEN [hist[p] EXCEPT !.generate_failed = TRUE]
              ELSE [Called(p, "openai.generate") EXCEPT
                      !.generate_failed = out \in GeneratorFailures]]
  /\ UNCHANGED <<settings, comments, auto_replies, req, started, faults, passes,
                 payloads, classified,
                 brand_voice, no_row, otp, upd, leaf, signup>>

\* the row of lines 280-288
AutoReplyRow(p, id) ==
  [id |-> id, user_id |-> req[p].user_id, comment_id |-> req[p].comment_id,
   reply_text |-> loc[p].reply_text,
   tone_used |-> Row(loc[p].settings).default_tone,
   language_used |-> Row(loc[p].settings).default_language,
   reply_status |-> "pending", created_by |-> "ai"]

\* InsertAutoReply sending the row twice
InsertAutoReplyTwice(p) ==
  /\ pc[p] = "insert"
  /\ \E outcome \in Outcomes :
       /\ IF outcome = "ok"
            THEN /\ auto_replies' =
                      Append(Append(auto_replies,
                                    AutoReplyRow(p, Len(auto_replies) + 1)),
                             AutoReplyRow(p, Len(auto_replies) + 2))
                 /\ loc' = [loc EXCEPT ![p].autoReply = Len(auto_replies) + 1]
                 /\ hist' = [hist EXCEPT ![p] =
                      [Called(p, "auto_replies.insert") EXCEPT !.inserted = @ + 1]]
                 /\ pc' = [pc EXCEPT ![p] = "detect"]
                 /\ res' = res
            ELSE /\ OnThrow(p)
                 /\ hist' = [hist EXCEPT ![p] =
                      CalledWith(p, "auto_replies.insert", outcome)]
                 /\ UNCHANGED <<auto_replies, loc, signup>>
       /\ faults' = Fault(outcome)
  /\ UNCHANGED <<settings, comments, req, started, passes,
                 payloads, classified,
                 brand_voice, no_row, otp, upd, leaf, signup>>

\* InsertAutoReply without line 293: replyError is not looked at
InsertAutoReplyUnchecked(p) ==
  /\ pc[p] = "insert"
  /\ \E outcome \in Outcomes :
       /\ IF outcome = "ok"
            THEN /\ auto_replies' =
                      Append(auto_replies, AutoReplyRow(p, Len(auto_replies) + 1))
                 /\ loc' = [loc EXCEPT ![p].autoReply = Len(auto_replies) + 1]
                 /\ hist' = [hist EXCEPT ![p] =
                      [Called(p, "auto_replies.insert") EXCEPT !.inserted = @ + 1]]
            ELSE /\ hist' = [hist EXCEPT ![p] =
                      CalledWith(p, "auto_replies.insert", outcome)]
                 /\ UNCHANGED <<auto_replies, loc, signup>>
       /\ faults' = Fault(outcome)
  /\ pc' = [pc EXCEPT ![p] = "detect"]
  /\ res' = res
  /\ UNCHANGED <<settings, comments, req, started, passes,
                 payloads, classified,
                 brand_voice, no_row, otp, upd, leaf, signup>>

\* an insert that is refused when the comment has an AutoReply already
InsertAutoReplyUnique(p) ==
  /\ pc[p] = "insert"
  /\ IF \E i \in 1..Len(auto_replies) :
          auto_replies[i].comment_id = req[p].comment_id
       THEN /\ OnThrow(p)
            /\ hist' = [hist EXCEPT ![p] = Called(p, "auto_replies.insert")]
            /\ UNCHANGED <<auto_replies, loc, faults, signup>>
       ELSE /\ auto_replies' =
                 Append(auto_replies, AutoReplyRow(p, Len(auto_replies) + 1))
            /\ loc' = [loc EXCEPT ![p].autoReply = Len(auto_replies) + 1]
            /\ hist' = [hist EXCEPT ![p] =
                 [Called(p, "auto_replies.insert") EXCEPT !.inserted = @ + 1]]
            /\ pc' = [pc EXCEPT ![p] = "detect"]
            /\ UNCHANGED <<res, faults, signup>>
  /\ UNCHANGED <<settings, comments, req, started, passes, payloads, classified,
                 brand_voice, no_row, otp, upd, leaf, signup>>

\* an insert whose failure undoes the classification write of the pass
InsertAutoReplyRollsBack(p) ==
  /\ pc[p] = "insert"
  /\ \E outcome \in Outcomes :
       /\ IF outcome = "ok"
            THEN /\ auto_replies' =
                      Append(auto_replies, AutoReplyRow(p, Len(auto_replies) + 1))
                 /\ loc' = [loc EXCEPT ![p].autoReply = Len(auto_replies) + 1]
                 /\ hist' = [hist EXCEPT ![p] =
                      [Called(p, "auto_replies.insert") EXCEPT !.inserted = @ + 1]]
                 /\ pc' = [pc EXCEPT ![p] = "detect"]
                 /\ UNCHANGED <<res, comments, signup>>
            ELSE /\ OnThrow(p)
                 /\ hist' = [hist EXCEPT ![p] =
                      CalledWith(p, "auto_replies.insert", outcome)]
                 /\ comments' =
                      UpdateComment(comments, req[p].comment_id,
                                    [sentiment |-> JsNull,
                                     sentiment_score |-> NoScore], "ok")
                 /\ UNCHANGED <<auto_replies, loc, signup>>
       /\ faults' = Fault(outcome)
  /\ UNCHANGED <<settings, req, started, passes, payloads, classified,
                 brand_voice, no_row, otp, upd, leaf, signup>>

\* lines 276-293
InsertAutoReply(p) ==
  /\ pc[p] = "insert"
  /\ \E outcome \in InsertOutcomes :
       /\ CASE outcome = "ok" ->
                 /\ auto_replies' =
                      Append(auto_replies, AutoReplyRow(p, Len(auto_replies) + 1))
                 /\ loc' = [loc EXCEPT ![p].autoReply = Len(auto_replies) + 1]
                 /\ hist' = [hist EXCEPT ![p] =
                      [Called(p, "auto_replies.insert") EXCEPT !.inserted = @ + 1]]
                 /\ pc' = [pc EXCEPT ![p] = "detect"]
                 /\ res' = res
            [] outcome = "no_row" ->
                 /\ \E stored \in BOOLEAN :
                      auto_replies' =
                        IF stored
                          THEN Append(auto_replies,
                                      AutoReplyRow(p, Len(auto_replies) + 1))
                          ELSE auto_replies
                 /\ hist' = [hist EXCEPT ![p] =
                      CalledWith(p, "auto_replies.insert", outcome)]
                 /\ pc' = [pc EXCEPT ![p] = "detect"]
                 /\ UNCHANGED <<loc, res, signup>>
            [] OTHER ->
                 /\ OnThrow(p)
                 /\ hist' = [hist EXCEPT ![p] =
                      CalledWith(p, "auto_replies.insert", outcome)]
                 /\ UNCHANGED <<auto_replies, loc, signup>>
       /\ faults' = Fault(outcome)
  /\ UNCHANGED <<settings, comments, req, started, passes,
                 payloads, classified,
                 brand_voice, no_row, otp, upd, leaf, signup>>

\* lines 295-296
DetectLead(p) ==
  /\ pc[p] = "detect"
  /\ \E out \in HandlerLeadOutputs :
       LET r == detectSalesLead(out) IN
       /\ IF r.raised
         THEN OnThrow(p) /\ loc' = loc
         ELSE /\ loc' = [loc EXCEPT ![p].is_lead = r.is_lead,
                                    ![p].temperature = r.temperature]
              /\ pc' = [pc EXCEPT ![p] = "lead_write"]
              /\ res' = res
       /\ hist' = [hist EXCEPT ![p] =
            [Called(p, "openai.lead") EXCEPT !.lead_failed = out \in LeadFailures]]
  /\ UNCHANGED <<settings, comments, auto_replies, req, started, faults, passes,
                 payloads, classified,
                 brand_voice, no_row, otp, upd, leaf, signup>>

\* line 303: `${sentiment}_lead_${temperature}`
LeadTag(sentiment, temperature) == sentiment \o "_lead_" \o temperature

\* LeadFields writing the reply's status, pending, as the comment's
LeadFieldsPending(is_lead, sentiment, temperature) ==
  IF Truthy(is_lead)
    THEN [auto_reply_status |-> "pending",
          sentiment |-> LeadTag(sentiment, temperature)]
    ELSE <<>>

\* lines 298-306: the fields written for a lead, none otherwise
LeadFields(is_lead, sentiment, temperature) ==
  IF Truthy(is_lead)
    THEN [auto_reply_status |-> "replied",
          sentiment |-> LeadTag(sentiment, temperature)]
    ELSE <<>>

\* lines 308-320
RepliedReply(p) ==
  [id |-> loc[p].autoReply, text |-> loc[p].reply_text,
   tone |-> Row(loc[p].settings).default_tone,
   language |-> Row(loc[p].settings).default_language,
   sentiment |-> loc[p].sentiment, is_sales_lead |-> loc[p].is_lead,
   lead_temperature |-> loc[p].temperature]

\* lines 298-320: the lead write, then the response; reading autoReply.id of
\* a null autoReply throws before res.json is called
LeadWriteAndRespond(p) ==
  /\ pc[p] = "lead_write"
  /\ LET fields == LeadFields(loc[p].is_lead, loc[p].sentiment, loc[p].temperature) IN
     IF fields # <<>>
       THEN \E outcome \in Outcomes :
              CommentWrite(p, fields, outcome, "comments.update.lead")
       ELSE UNCHANGED <<comments, hist, faults, signup>>
  /\ IF loc[p].autoReply = 0
       THEN OnThrow(p)
       ELSE /\ res' = [res EXCEPT ![p] =
                 Send(@, 200, TRUE, "replied", "", "", RepliedReply(p))]
            /\ pc' = [pc EXCEPT ![p] = "done"]
  /\ UNCHANGED <<settings, auto_replies, req, loc, started, passes,
                 payloads, classified,
                 brand_voice, no_row, otp, upd, leaf, signup>>

Next ==
  \E p \in Procs :
    \/ Invoke(p)
    \/ LoadSettings(p)
    \/ Classify(p)
    \/ UpdateSentiment(p)
    \/ SpamGate(p)
    \/ HateGate(p)
    \/ AutoLike(p)
    \/ ReadBrandVoice(p)
    \/ GenerateReplyReads(p)
    \/ GenerateReplyCall(p)
    \/ InsertAutoReply(p)
    \/ DetectLead(p)
    \/ LeadWriteAndRespond(p)

Spec == Init /\ [][Next]_vars

\* repeated passes under a policy with both gates armed, the ledger sound
InitPasses ==
  /\ HandlerInit
  /\ settings \in {{r} : r \in {x \in PlainSettingsRows :
                       x.ignore_spam = JsTrue /\ x.ignore_hate_comments = JsTrue}}
  /\ faults = MaxFaults
  /\ passes = MaxPasses
  /\ payloads = Requests
  /\ no_row = FALSE
  /\ leaf = NoLeaf

SpecPasses == InitPasses /\ [][Next]_vars

\* one pass under every gate policy that has auto-like set, with a ledger
\* whose insert may also resolve with neither an error nor a row
InitNoRow ==
  /\ HandlerInit
  /\ settings \in {{}} \cup {{r} : r \in {x \in PlainSettingsRows :
                                       x.auto_like_positive = JsTrue}}
  /\ faults = 0
  /\ passes = MaxInvocations
  /\ payloads = Requests
  /\ no_row = TRUE
  /\ leaf = NoLeaf

SpecNoRow == InitNoRow /\ [][Next]_vars

\* one pass under a settings row whose tone or language may be null or
\* empty; every ledger call succeeds
InitLoose ==
  /\ HandlerInit
  /\ settings \in {{r} : r \in LooseSettingsRows}
  /\ faults = MaxFaults
  /\ passes = MaxInvocations
  /\ payloads = Requests
  /\ no_row = FALSE
  /\ leaf = NoLeaf

SpecLoose == InitLoose /\ [][Next]_vars

\* callers that leave one field out of the body, every ledger call succeeding
InitMissing ==
  /\ HandlerInit
  /\ settings \in {{}} \cup {{r} : r \in PlainSettingsRows}
  /\ faults = MaxFaults
  /\ passes = MaxInvocations
  /\ payloads = IncompleteRequests
  /\ no_row = FALSE
  /\ leaf = NoLeaf

SpecMissing == InitMissing /\ [][Next]_vars

\* ------------------------------------------- the two update handlers
\* the bodies updateAutoReplySettingsHandler is called with
SettingsBodies ==
  {[default_tone |-> "polite", default_language |-> "english",
    auto_like_positive |-> JsFalse, ignore_spam |-> JsFalse,
    ignore_hate_comments |-> JsFalse]}

\* the bodies updateBrandVoiceHandler is called with
\* with catchphrases as the list ["yo"] or, nothing checking the body, as the
\* string "yo"
BrandVoiceBodies ==
  [brand_name : {"Sfiya.ai"}, catchphrases : JsArrays \cup {"yo"}]

\* lines 331-369: one update of the user's settings row, then the answer
UpdateAutoReplySettings ==
  /\ upd.pc = "idle" /\ upd.calls < upd.allowed
  /\ \E u \in Users, body \in SettingsBodies, outcome \in Outcomes :
       LET matching == SettingsOf(settings, u)
           updated == {[r EXCEPT
                          !.default_tone = body.default_tone,
                          !.default_language = body.default_language,
                          !.auto_like_positive = body.auto_like_positive,
                          !.ignore_spam = body.ignore_spam,
                          !.ignore_hate_comments = body.ignore_hate_comments] :
                       r \in matching}
       IN
       /\ IF SingleError(matching, outcome)
            THEN /\ settings' = settings
                 /\ upd' = [upd EXCEPT !.calls = @ + 1, !.status = 500,
                                       !.error = "Failed to update settings",
                                       !.body = body]
            ELSE /\ settings' = (settings \ matching) \cup updated
                 /\ upd' = [upd EXCEPT !.calls = @ + 1, !.status = 200,
                                       !.error = "", !.body = body]
       /\ faults' = Fault(outcome)
  /\ UNCHANGED <<comments, auto_replies, pc, req, loc, res, hist, started,
                 passes, payloads, classified, brand_voice, no_row, otp, leaf, signup>>

\* lines 375-398: the update of the brand_voice row; its error is thrown
UpdateBrandVoice ==
  /\ upd.pc = "idle" /\ upd.calls < upd.allowed
  /\ \E u \in Users, body \in BrandVoiceBodies, outcome \in Outcomes :
       LET matching == {r \in brand_voice : r.user_id = u} IN
       /\ IF SingleError(matching, outcome)
            THEN /\ brand_voice' = brand_voice
                 /\ upd' = [upd EXCEPT !.calls = @ + 1, !.status = 500,
                                       !.error = "Failed to update brand voice",
                                       !.body = body]
            ELSE /\ brand_voice' =
                      (brand_voice \ matching)
                        \cup {[r EXCEPT !.brand_name = body.brand_name] :
                               r \in matching}
                 /\ upd' = [upd EXCEPT !.pc = "voice_settings", !.status = 0,
                                       !.error = "", !.user = u,
                                       !.body = body]
       /\ faults' = Fault(outcome)
  /\ UNCHANGED <<settings, comments, auto_replies, pc, req, loc, res, hist,
                 started, passes, payloads, classified, no_row, otp, leaf, signup>>

\* lines 400-414: the voice details go to the settings row, the result of
\* that update is not looked at, then the answer
UpdateBrandVoiceSettings ==
  /\ upd.pc = "voice_settings"
  /\ \E outcome \in Outcomes :
       LET matching == SettingsOf(settings, upd.user) IN
       /\ settings' =
            IF outcome = "ok"
              THEN (settings \ matching)
                     \cup {[r EXCEPT !.catchphrases = upd.body.catchphrases] :
                            r \in matching}
              ELSE settings
       /\ faults' = Fault(outcome)
  /\ upd' = [upd EXCEPT !.pc = "idle", !.calls = @ + 1, !.status = 200]
  /\ UNCHANGED <<comments, auto_replies, pc, req, loc, res, hist, started,
                 passes, payloads, classified, brand_voice, no_row, otp, leaf, signup>>

\* ------------------------------------------------- the one-time codes
\* the code of the first token and a code no token has at first
OtpCodes == {"123456", "000000"}

\* part_003 line 37: a token lives ten minutes; that is the unit of the clock
OtpLifetime == 1

\* part_003 lines 40-48: the row generateAndSendOTP inserts
NewToken(code, expires_at) ==
  [otp_code |-> code, is_used |-> FALSE, expires_at |-> expires_at]

\* part_003 lines 36-37: generateAndSendOTP draws the code and fixes
\* expires_at from the clock at the call, before the insert is awaited
BeginOtp(o, code) ==
  [o EXCEPT !.issue = [otp_code |-> code,
                       expires_at |-> o.clock + OtpLifetime],
            !.issuing = "inserting", !.sent = "none"]

\* part_003 lines 40-50: the insert is answered; an accepted insert stores
\* the row with the expires_at fixed at the call and the mail is awaited, a
\* refused insert stores nothing and is thrown
IssueOtp(o, outcome) ==
  IF outcome = "ok"
    THEN [o EXCEPT !.tokens = Append(@, NewToken(o.issue.otp_code,
                                                 o.issue.expires_at)),
                   !.accepted = Append(@, 0),
                   !.issuing = "mailing"]
    ELSE [o EXCEPT !.sent = "threw", !.issuing = "idle"]

\* part_003 lines 53-70: sendMail resolves or throws, and generateAndSendOTP
\* returns or throws with it
MailOtp(o, mail) ==
  [o EXCEPT !.sent = IF mail = "sent" THEN "sent" ELSE "threw",
            !.issuing = "idle"]

\* part_003 lines 37 and 86: Date.now() moves on
ClockTick ==
  /\ otp.clock < MaxClock
  /\ otp' = [otp EXCEPT !.clock = @ + 1]
  /\ UNCHANGED <<settings, comments, auto_replies, pc, req, loc, res, hist,
                 started, faults, passes, payloads, classified, brand_voice,
                 no_row, upd, leaf, signup>>

\* what sendMail does (part_003 lines 53-64)
MailOutcomes == {"sent", "throw"}

\* ------------------------------------------------------------ signUpHandler
\* the bodies signUpHandler is called with
SignUpBodies ==
  [email     : {"a@b.c"},
   full_name : {"Sfiya", JsUndefined},
   user_type : {"individual", "creator"}]

\* the ids the users ledger gives to the rows it inserts, in order
UserIds == <<"u1", "u2", "u3", "u4">>

\* part_003 lines 154-164: the settings row of a new user; the columns the
\* insert leaves out are null
SignUpSettingsRow(u) ==
  [user_id |-> u, default_tone |-> "polite", default_language |-> "english",
   auto_like_positive |-> JsTrue, ignore_spam |-> JsTrue,
   ignore_hate_comments |-> JsNull, catchphrases |-> JsNull]

\* the answer of signUpHandler
SignUpSend(status, error) ==
  [signup EXCEPT !.pc = "idle", !.status = status, !.error = error]

\* part_003 lines 112-132: validate the body, then look for a user with this
\* email; the error of that read is not looked at
SignUpCheck ==
  /\ signup.pc = "idle" /\ signup.calls < signup.allowed
  /\ \E body \in SignUpBodies :
       LET begun == [signup EXCEPT !.calls = @ + 1, !.body = body,
                                   !.user = JsUndefined]
           existing == {u \in signup.users : u.email = body.email}
       IN
       IF Falsy(body.email) \/ Falsy(body.full_name) \/ Falsy(body.user_type)
         THEN /\ signup' = [begun EXCEPT !.status = 400,
                                         !.error = "Missing required fields"]
              /\ faults' = faults
         ELSE IF body.user_type \notin {"individual", "agency"}
           THEN /\ signup' = [begun EXCEPT !.status = 400,
                                           !.error = "Invalid user type"]
                /\ faults' = faults
           ELSE \E outcome \in Outcomes :
                  /\ signup' =
                       IF SingleError(existing, outcome)
                         THEN [begun EXCEPT !.pc = "insert_user", !.status = 0,
                                            !.error = ""]
                         ELSE [begun EXCEPT !.status = 409,
                                            !.error = "User already exists"]
                  /\ faults' = Fault(outcome)
  /\ UNCHANGED <<settings, comments, auto_replies, pc, req, loc, res, hist,
                 started, passes, payloads, classified, brand_voice, no_row,
                 otp, upd, leaf>>

\* part_003 lines 135-151: insert the user; a refused insert is thrown
SignUpInsertUser ==
  /\ signup.pc = "insert_user"
  /\ \E outcome \in Outcomes :
       LET id == UserIds[Cardinality(signup.users) + 1] IN
       /\ signup' =
            IF outcome = "ok"
              THEN [signup EXCEPT
                      !.users = @ \cup {[id |-> id, email |-> signup.body.email]},
                      !.user = id, !.pc = "insert_settings"]
              ELSE SignUpSend(500, "Signup failed")
       /\ faults' = Fault(outcome)
  /\ UNCHANGED <<settings, comments, auto_replies, pc, req, loc, res, hist,
                 started, passes, payloads, classified, brand_voice, no_row,
                 otp, upd, leaf>>

\* part_003 lines 153-164: insert the default settings of the new user; the
\* result of the insert is not looked at
SignUpInsertSettings ==
  /\ signup.pc = "insert_settings"
  /\ \E outcome \in Outcomes :
       /\ settings' = IF outcome = "ok"
                        THEN settings \cup {SignUpSettingsRow(signup.user)}
                        ELSE settings
       /\ faults' = Fault(outcome)
  /\ signup' = [signup EXCEPT !.pc = "insert_voice"]
  /\ UNCHANGED <<comments, auto_replies, pc, req, loc, res, hist, started,
                 passes, payloads, classified, brand_voice, no_row, otp, upd,
                 leaf>>

\* part_003 lines 166-176 and 36-48: insert the default brand voice, named
\* after the user; the result of the insert is not looked at, and with its
\* answer generateAndSendOTP is called: it draws the code, fixes expires_at
\* and sends the insert of the token
SignUpInsertBrandVoice ==
  /\ signup.pc = "insert_voice"
  /\ \E outcome \in Outcomes :
       /\ brand_voice' =
            IF outcome = "ok"
              THEN brand_voice \cup {[user_id |-> signup.user,
                                      brand_name |-> signup.body.full_name]}
              ELSE brand_voice
       /\ faults' = Fault(outcome)
  /\ \E code \in OtpCodes : otp' = BeginOtp(otp, code)
  /\ signup' = [signup EXCEPT !.pc = "send_otp"]
  /\ UNCHANGED <<settings, comments, auto_replies, pc, req, loc, res, hist,
                 started, passes, payloads, classified, no_row, upd,
                 leaf>>

\* part_003 lines 40-50 and 183-186: the insert of the token is answered; a
\* refused insert is thrown, caught at line 183 and answered with 500
SignUpSendOtp ==
  /\ signup.pc = "send_otp" /\ otp.issuing = "inserting"
  /\ \E outcome \in Outcomes :
       /\ otp' = IssueOtp(otp, outcome)
       /\ signup' = IF outcome = "ok"
                      THEN signup
                      ELSE SignUpSend(500, "Signup failed")
       /\ faults' = Fault(outcome)
  /\ UNCHANGED <<settings, comments, auto_replies, pc, req, loc, res, hist,
                 started, passes, payloads, classified, brand_voice, no_row,
                 upd, leaf>>

\* part_003 lines 52-70 and 178-186: generateAndSendOTP mails the code, then
\* the answer; a failed mail is caught at line 183 and answered with 500
SignUpSendMail ==
  /\ signup.pc = "send_otp" /\ otp.issuing = "mailing"
  /\ \E mail \in MailOutcomes :
       /\ otp' = MailOtp(otp, mail)
       /\ signup' = IF mail = "sent"
                      THEN SignUpSend(201, "")
                      ELSE SignUpSend(500, "Signup failed")
  /\ UNCHANGED <<settings, comments, auto_replies, pc, req, loc, res, hist,
                 started, faults, passes, payloads, classified, brand_voice,
                 no_row, upd, leaf>>

\* one request served while a user who has signed up edits the settings and
\* the brand voice (no token can be issued, the clock is at its end), or
\* repeated requests about one comment while the user is signing up and the
\* clock runs; every ledger call succeeds
InitUpdates ==
  /\ SlotsInit
  /\ pc = [p \in Procs |-> IF p = 1 THEN "idle" ELSE "off"]
  /\ upd = [NoUpdate EXCEPT !.allowed = MaxUpdates]
  /\ \/ /\ signup = [SignedUp EXCEPT !.allowed = MaxSignUps]
        /\ settings \in {{r} : r \in PlainSettingsRows}
        /\ brand_voice = {[user_id |-> "u1", brand_name |-> "Sfiya"]}
        /\ passes = MaxInvocations
        /\ payloads = Requests
        /\ otp = [NoOtp EXCEPT !.clock = MaxClock]
     \/ /\ signup = [NoSignUp EXCEPT !.allowed = MaxSignUps]
        /\ settings = {}
        /\ brand_voice = {}
        /\ passes = MaxPasses
        /\ payloads = {r \in Requests : r.comment_id = "c1"
                                        /\ r.platform = "instagram"}
        /\ otp = NoOtp
  /\ faults = MaxFaults
  /\ no_row = FALSE
  /\ leaf = NoLeaf

NextUpdates ==
  \/ Next
  \/ UpdateAutoReplySettings
  \/ UpdateBrandVoice
  \/ UpdateBrandVoiceSettings
  \/ SignUpCheck
  \/ SignUpInsertUser
  \/ SignUpInsertSettings
  \/ SignUpInsertBrandVoice
  \/ SignUpSendOtp
  \/ SignUpSendMail
  \/ ClockTick

SpecUpdates == InitUpdates /\ [][NextUpdates]_vars

\* two requests about instagram comments served at the same time, one in
\* each slot; every ledger call succeeds
InitConcurrent ==
  /\ StoresInit
  /\ pc = [p \in Procs |-> "idle"]
  /\ otp = NoOtp
  /\ upd = NoUpdate
  /\ settings \in {{r} : r \in {x \in PlainSettingsRows :
                       /\ x.ignore_spam = JsTrue
                       /\ x.ignore_hate_comments = JsTrue
                       /\ x.auto_like_positive = JsTrue}}
  /\ faults = MaxFaults
  /\ passes = Cardinality(Procs)
  /\ payloads = {r \in Requests : r.platform = "instagram"}
  /\ no_row = FALSE
  /\ leaf = NoLeaf

SpecConcurrent == InitConcurrent /\ [][Next]_vars

\* ------------------------------------------- the leaf services on their own
LeafResult(r) ==
  [raised |-> r.raised,
   sentiment |-> IF "sentiment" \in DOMAIN r THEN r.sentiment ELSE JsUndefined,
   score |-> IF "score" \in DOMAIN r THEN r.score ELSE NoScore,
   text |-> IF "text" \in DOMAIN r THEN r.text ELSE JsUndefined,
   is_lead |-> IF "is_lead" \in DOMAIN r THEN r.is_lead ELSE JsUndefined,
   temperature |-> IF "temperature" \in DOMAIN r THEN r.temperature ELSE JsUndefined]

InitLeaf ==
  /\ HandlerInit
  /\ settings = {}
  /\ faults = 0
  /\ passes = 0
  /\ payloads = {}
  /\ no_row = FALSE
  /\ leaf \in
       {[NoLeaf EXCEPT !.fn = "analyzeSentiment", !.classifier = o] :
          o \in ClassifierOutputs}
       \cup
       {[NoLeaf EXCEPT !.fn = "generateReply", !.generator = o,
                       !.catchphrases = c] :
          o \in GeneratorOutputs, c \in {JsNull, "yo"} \cup JsArrays}
       \cup
       {[NoLeaf EXCEPT !.fn = "detectSalesLead", !.lead = o] : o \in LeadOutputs}

Return(r) ==
  /\ leaf' = [leaf EXCEPT !.returned = TRUE, !.result = LeafResult(r)]
  /\ UNCHANGED <<settings, comments, auto_replies, pc, req, loc, res, hist,
                 started, faults, passes, payloads, classified, brand_voice,
                 no_row, otp, upd, signup>>

CallAnalyzeSentiment ==
  /\ leaf.fn = "analyzeSentiment" /\ ~leaf.returned
  /\ Return(analyzeSentiment(leaf.classifier))

CallGenerateReply ==
  /\ leaf.fn = "generateReply" /\ ~leaf.returned
  /\ Return(generateReply(PromptThrows({[catchphrases |-> leaf.catchphrases]}),
                          leaf.generator))

CallDetectSalesLead ==
  /\ leaf.fn = "detectSalesLead" /\ ~leaf.returned
  /\ Return(detectSalesLead(leaf.lead))

NextLeaf ==
  \/ CallAnalyzeSentiment
  \/ CallGenerateReply
  \/ CallDetectSalesLead

SpecLeaf == InitLeaf /\ [][NextLeaf]_vars

\* ------------------------------------------------------------- verifyOTP
OtpCallers == {1, 2}

\* one unused token that expired before the clock started or has a
\* lifetime to go, no call made yet
InitOtp ==
  /\ StoresInit
  /\ pc = [p \in Procs |-> "off"]
  /\ upd = NoUpdate
  /\ settings = {}
  /\ faults = 0
  /\ passes = 0
  /\ payloads = {}
  /\ no_row = FALSE
  /\ leaf = NoLeaf
  /\ otp \in
       {[tokens |-> <<NewToken("123456", e)>>,
         pc |-> [c \in OtpCallers |-> "idle"],
         code |-> [c \in OtpCallers |-> ""],
         found |-> [c \in OtpCallers |-> 0],
         result |-> [c \in OtpCallers |-> "none"],
         calls |-> 0,
         accepted |-> <<0>>,
         sent |-> "none",
         issuing |-> "idle",
         issue |-> NoOtp.issue,
         now |-> [c \in OtpCallers |-> 0],
         clock |-> 0] : e \in {-1, OtpLifetime}}

\* part_003 lines 33-48: generateAndSendOTP is called: it draws the code,
\* fixes expires_at and sends the insert
GenerateAndSendOTP ==
  /\ otp.issuing = "idle"
  /\ Len(otp.tokens) < MaxOtpTokens
  /\ \E code \in OtpCodes : otp' = BeginOtp(otp, code)
  /\ UNCHANGED <<settings, comments, auto_replies, pc, req, loc, res, hist,
                 started, faults, passes, payloads, classified, brand_voice,
                 no_row, upd, leaf, signup>>

\* part_003 lines 40-50: the insert of generateAndSendOTP is answered
StoreOtp ==
  /\ otp.issuing = "inserting"
  /\ \E outcome \in WriteOutcomes : otp' = IssueOtp(otp, outcome)
  /\ UNCHANGED <<settings, comments, auto_replies, pc, req, loc, res, hist,
                 started, faults, passes, payloads, classified, brand_voice,
                 no_row, upd, leaf, signup>>

\* part_003 lines 52-70: generateAndSendOTP mails the code of the token it
\* stored; a failed mail is thrown to the caller, the token stays
SendOtpMail ==
  /\ otp.issuing = "mailing"
  /\ \E mail \in MailOutcomes : otp' = MailOtp(otp, mail)
  /\ UNCHANGED <<settings, comments, auto_replies, pc, req, loc, res, hist,
                 started, faults, passes, payloads, classified, brand_voice,
                 no_row, upd, leaf, signup>>

\* part_003 lines 77-87: verifyOTP is called: the select is sent with the
\* clock of the call as the bound of expires_at
VerifyOtpCall(c) ==
  /\ otp.pc # <<>> /\ otp.pc[c] = "idle"
  /\ otp.calls < MaxOtpCalls
  /\ \E code \in OtpCodes :
       otp' = [otp EXCEPT !.calls = @ + 1, !.code[c] = code,
                          !.now[c] = otp.clock, !.found[c] = 0,
                          !.result[c] = "none", !.pc[c] = "selecting"]
  /\ UNCHANGED <<settings, comments, auto_replies, pc, req, loc, res, hist,
                 started, faults, passes, payloads, classified, brand_voice,
                 no_row, upd, leaf, signup>>

\* part_003 lines 79-91: the select is answered from the rows as they are
\* now: the unused tokens with this code whose expires_at is not before the
\* clock of the call; .single() fails unless exactly one row matches
VerifyOtpSelect(c) ==
  /\ otp.pc # <<>> /\ otp.pc[c] = "selecting"
  /\ \E outcome \in WriteOutcomes :
       LET matching == {i \in DOMAIN otp.tokens :
                          /\ otp.tokens[i].otp_code = otp.code[c]
                          /\ ~otp.tokens[i].is_used
                          /\ otp.tokens[i].expires_at >= otp.now[c]}
       IN
       IF outcome = "error" \/ Cardinality(matching) # 1
         THEN otp' = [otp EXCEPT !.found[c] = 0, !.result[c] = "threw",
                                 !.pc[c] = "idle"]
         ELSE otp' = [otp EXCEPT !.found[c] = CHOOSE i \in matching : TRUE,
                                 !.pc[c] = "marking"]
  /\ UNCHANGED <<settings, comments, auto_replies, pc, req, loc, res, hist,
                 started, faults, passes, payloads, classified, brand_voice,
                 no_row, upd, leaf, signup>>

\* part_003 lines 93-99: mark the row found as used, whose result is not
\* looked at, and return success
VerifyOtpMark(c) ==
  /\ otp.pc # <<>> /\ otp.pc[c] = "marking"
  /\ \E outcome \in WriteOutcomes :
       LET i == otp.found[c] IN
       otp' = [otp EXCEPT !.tokens[i].is_used = (outcome = "ok") \/ @,
                          !.accepted[i] = @ + 1,
                          !.result[c] = "success", !.pc[c] = "idle"]
  /\ UNCHANGED <<settings, comments, auto_replies, pc, req, loc, res, hist,
                 started, faults, passes, payloads, classified, brand_voice,
                 no_row, upd, leaf, signup>>

NextOtp ==
  \/ \E c \in OtpCallers :
       VerifyOtpCall(c) \/ VerifyOtpSelect(c) \/ VerifyOtpMark(c)
  \/ ClockTick
  \/ GenerateAndSendOTP
  \/ StoreOtp
  \/ SendOtpMail

SpecOtp == InitOtp /\ [][NextOtp]_vars

TypeOK ==
  /\ started \in 0..passes
  /\ faults \in 0..MaxFaults
  /\ payloads \subseteq Requests \cup IncompleteRequests
  /\ no_row \in BOOLEAN
  /\ \A r \in brand_voice : r.user_id \in Users
  /\ \A r \in settings : r.user_id \in Users
  /\ signup.calls \in 0..signup.allowed
  /\ \A p \in Procs : res[p].sent \in 0..1
  /\ \A c \in CommentIds :
       comments[c].auto_reply_status \in {"pending", "ignored", "escalated", "replied"}

\* ------------------------------------------------------------- properties
Done(p) == pc[p] = "done"

\* the names of the calls invocation p has made
CallsOf(p) == {hist[p].calls[i] : i \in 1..Len(hist[p].calls)}

\* generateReply has run in invocation p: it has made its two reads (lines
\* 82-92) and returned a text, from the backend or a fallback
ReplyGenerated(p) ==
  /\ {"brand_voice.select", "generateReply.settings.select"} \subseteq CallsOf(p)
  /\ loc[p].reply_text # ""

\* the row of the comment the invocation p is about
CommentOf(rows, p) == rows[req[p].comment_id]

\* invocation p takes the step that leaves the await named at
StepFrom(p, at) == pc[p] = at /\ pc'[p] # at

LastCall(p) == hist[p].calls[Len(hist[p].calls)]

StatusCalls ==
  {"comments.update.ignored", "comments.update.escalated", "comments.update.lead"}

\* the number of status writes among the calls of one invocation
StatusWrites(calls) == Cardinality({i \in 1..Len(calls) : calls[i] \in StatusCalls})

TerminalStatuses == {"ignored", "escalated", "replied"}

\* C1: an invocation whose classifier answered spam under a policy with
\* ignore_spam set answers success / ignored / "Spam detected", leaves the
\* comment's auto_reply_status at ignored and inserts no AutoReply.
C1_SpamIgnored ==
  [][\A p \in Procs :
       (/\ StepFrom(p, "spam_gate")
        /\ loc[p].sentiment = "spam"
        /\ Row(loc[p].settings).ignore_spam = JsTrue)
       => /\ Done(p)'
          /\ res'[p] = Send(NoResponse, 200, TRUE, "ignored", "Spam detected", "", NoReply)
          /\ CommentOf(comments', p).auto_reply_status = "ignored"
          /\ auto_replies' = auto_replies
          /\ hist'[p].inserted = 0]_vars

\* C2: an invocation whose classifier answered hate under a policy with
\* ignore_hate_comments set answers success / escalated, leaves the comment's
\* auto_reply_status at escalated and inserts no AutoReply.
C2_HateEscalated ==
  [][\A p \in Procs :
       (/\ StepFrom(p, "hate_gate")
        /\ loc[p].sentiment = "hate"
        /\ Row(loc[p].settings).ignore_hate_comments = JsTrue)
       => /\ Done(p)'
          /\ res'[p].sent = 1 /\ res'[p].status = 200 /\ res'[p].success
          /\ res'[p].action = "escalated"
          /\ CommentOf(comments', p).auto_reply_status = "escalated"
          /\ auto_replies' = auto_replies
          /\ hist'[p].inserted = 0]_vars

\* C3: when the settings read finds no record, or answers an error, the
\* invocation ends there with 404 "Settings not found": the read is its only
\* call and the comments and auto_replies tables are as they were.
C3_NoSettings404 ==
  [][\A p \in Procs :
       (/\ StepFrom(p, "load_settings")
        /\ \/ Cardinality(SettingsOf(settings, req[p].user_id)) = 0
           \/ faults' # faults)
       => /\ Done(p)'
          /\ res'[p] = Send(NoResponse, 404, FALSE, "", "", "Settings not found", NoReply)
          /\ hist'[p].calls = <<"settings.select">>
          /\ comments' = comments
          /\ auto_replies' = auto_replies]_vars

C3_Witness ==
  \E p \in Procs : Done(p) /\ res[p].status = 404 /\ faults = 0 /\ settings = {}

\* C4: a step adds at most one row to auto_replies, only the insert step of an
\* invocation that has called the generator and not yet answered; an
\* invocation inserts at most once, and never when it answers ignored or
\* escalated.
C4_AtMostOneAutoReply ==
  [][/\ auto_replies' # auto_replies =>
          \E p \in Procs :
            /\ StepFrom(p, "insert")
            /\ res[p].sent = 0
            /\ ReplyGenerated(p)
            /\ Len(auto_replies') = Len(auto_replies) + 1
            /\ SubSeq(auto_replies', 1, Len(auto_replies)) = auto_replies
            /\ auto_replies'[Len(auto_replies')].comment_id = req[p].comment_id
     /\ \A p \in Procs :
          /\ hist'[p].inserted <= 1
          /\ res'[p].action \in {"ignored", "escalated"} => hist'[p].inserted = 0]_vars

C4_Witness ==
  \E p \in Procs :
    /\ Done(p) /\ res[p].action = "replied" /\ hist[p].inserted = 1
    /\ Len(auto_replies) = 1

\* C5 as stated: after a failed classification call the result is
\* {neutral, 0.5} and the invocation ends in a success response.
C5_Original ==
  \A p \in Procs :
    hist[p].classify_failed =>
      /\ loc[p].sentiment = "neutral" /\ loc[p].sentiment_score = 5
      /\ Done(p) => res[p].success

\* C5 (amended): after a failed classification call the result is exactly
\* {neutral, 0.5}, nothing is raised, neither gate stops the invocation, and
\* it ends in success / replied unless the AutoReply insert fails, which is
\* answered with the 500 error.
C5_ClassifyFailureAbsorbed ==
  \A p \in Procs :
    hist[p].classify_failed =>
      /\ loc[p].sentiment = "neutral" /\ loc[p].sentiment_score = 5
      /\ Done(p) =>
           \/ res[p].success /\ res[p].action = "replied" /\ res[p].status = 200
           \/ /\ res[p].status = 500
              /\ LastCall(p) = "auto_replies.insert"
              /\ hist[p].inserted = 0

C5_Witness ==
  \E p \in Procs :
    /\ Done(p) /\ hist[p].classify_failed
    /\ res[p].action = "replied" /\ res[p].reply.sentiment = "neutral"

\* C6: generateReply returns without raising and its text is a non-empty
\* string, whatever the reads before the call and the backend did.
C6_ReplyNeverEmpty ==
  (leaf.fn = "generateReply" /\ leaf.returned) =>
    /\ ~leaf.result.raised
    /\ leaf.result.text \notin {"", JsNull, JsUndefined}

C6_Witness ==
  /\ leaf.fn = "generateReply" /\ leaf.returned
  /\ leaf.generator.kind = "content" /\ leaf.generator.text = ""
  /\ ~PromptThrows({[catchphrases |-> leaf.catchphrases]})

\* C7: when the invocation answers after lead detection, the comment's
\* sentiment is "<sentiment>_lead_<temperature>" and its status replied if
\* the detector said lead, and the classifier's category otherwise.
C7_LeadTagging ==
  [][\A p \in Procs :
       StepFrom(p, "lead_write") =>
         IF loc[p].is_lead = JsTrue
           THEN /\ CommentOf(comments', p).sentiment =
                     LeadTag(loc[p].sentiment, loc[p].temperature)
                /\ CommentOf(comments', p).auto_reply_status = "replied"
           ELSE CommentOf(comments', p).sentiment = loc[p].sentiment]_vars

\* C8: a failed AutoReply insert ends the invocation with a non-2xx error
\* response; the invocation never answers success or replied.
C8_InsertFailureIsHard ==
  [][\A p \in Procs :
       (StepFrom(p, "insert") /\ faults' # faults)
       => /\ Done(p)'
          /\ res'[p].sent = 1
          /\ res'[p].status \notin 200..299
          /\ ~res'[p].success
          /\ res'[p].action # "replied"
          /\ res'[p].error = "Failed to generate reply"
          /\ auto_replies' = auto_replies]_vars

C8_Witness ==
  \E p \in Procs :
    /\ Done(p) /\ res[p].status = 500
    /\ LastCall(p) = "auto_replies.insert" /\ hist[p].failed_writes = 1

\* C9: an invocation that answered success left the comment's
\* auto_reply_status at the terminal status named by the action.
C9_StatusMatchesAction ==
  [][\A p \in Procs :
       (~Done(p) /\ Done(p)' /\ res'[p].success)
       => CommentOf(comments', p).auto_reply_status = res'[p].action]_vars

\* C10 as stated: the status is never written to pending, and a terminal
\* status is never changed to a different value.
C10_Original ==
  [][\A c \in CommentIds :
       /\ comments'[c].auto_reply_status # comments[c].auto_reply_status
            => comments'[c].auto_reply_status \in TerminalStatuses
       /\ comments[c].auto_reply_status \in TerminalStatuses
            => comments'[c].auto_reply_status = comments[c].auto_reply_status]_vars

\* C10 (amended): the status is only ever written to ignored, escalated or
\* replied, never to pending, by the one status write of an invocation on
\* that comment; a later invocation may replace a terminal status by another.
C10_StatusOnlyForward ==
  [][/\ \A c \in CommentIds :
          comments'[c].auto_reply_status # comments[c].auto_reply_status
            => /\ comments'[c].auto_reply_status \in TerminalStatuses
               /\ \E p \in Procs :
                    req[p].comment_id = c /\ StatusWrites(hist'[p].calls) = 1
     /\ \A p \in Procs : StatusWrites(hist'[p].calls) <= 1]_vars

C10_Witness ==
  \E p \in Procs :
    /\ started = 2 /\ Done(p) /\ res[p].action = "escalated"
    /\ CommentOf(comments, p).auto_reply_status = "escalated"
    /\ Len(auto_replies) = 1
    /\ auto_replies[1].comment_id = req[p].comment_id

\* the Comment writes of the classification step, the spam gate and the hate gate
GuardedCommentWrites ==
  {"comments.update.sentiment", "comments.update.ignored",
   "comments.update.escalated"}

\* C11: an invocation in which the Comment update of the classification
\* step, of the spam gate or of the hate gate failed never answers success:
\* it is aborted with an error response.
C11_FailedCommentWriteAborts ==
  \A p \in Procs :
    Done(p) /\ hist[p].failed_calls \cap GuardedCommentWrites # {} =>
      ~res[p].success /\ res[p].status >= 400

\* C12: a body in which comment_id, user_id, comment_text or platform is
\* missing makes no external call at all (no settings read, no
\* classification, no Comment write, no AutoReply insert) and is answered
\* with a client error.
C12_IncompleteBodyRejected ==
  \A p \in Procs :
    req[p] \in IncompleteRequests =>
      /\ hist[p].calls = <<>>
      /\ auto_replies = <<>>
      /\ Done(p) => ~res[p].success /\ res[p].status \in 400..499

GateCalls == {"comments.update.ignored", "comments.update.escalated"}

\* the settings row invocation p loaded
Policy(p) == Row(loc[p].settings)

\* C13: within one invocation the spam gate and the hate gate never both
\* fire: at most one of the status writes ignored / escalated is made, at
\* most one response is sent and a finished invocation has sent exactly one,
\* and the hate gate is only reached after the spam gate declined.
C13_GatesExclusive ==
  \A p \in Procs :
    LET calls == hist[p].calls IN
    /\ Cardinality({i \in 1..Len(calls) : calls[i] \in GateCalls}) <= 1
    /\ res[p].sent <= 1
    /\ Done(p) => res[p].sent = 1
    /\ pc[p] = "hate_gate" =>
         /\ ~(loc[p].sentiment = "spam" /\ Policy(p).ignore_spam = JsTrue)
         /\ GateCalls \cap {calls[i] : i \in 1..Len(calls)} = {}
    /\ "comments.update.escalated" \in {calls[i] : i \in 1..Len(calls)} =>
         loc[p].sentiment = "hate"

C13_Witness ==
  \E p \in Procs :
    /\ Done(p) /\ res[p].action = "escalated" /\ res[p].sent = 1
    /\ Policy(p).ignore_spam = JsTrue
    /\ LastCall(p) = "comments.update.escalated"

\* C14: once the settings check is passed, the classifier's sentiment and
\* score are on the Comment before a gate is evaluated, so a comment that
\* ends ignored or escalated carries the sentiment and score of that pass.
C14_ClassificationOnCommentAtGates ==
  \A p \in Procs :
    \/ pc[p] \in {"spam_gate", "hate_gate"}
    \/ Done(p) /\ res[p].action \in {"ignored", "escalated"}
    => /\ "comments.update.sentiment" \in {hist[p].calls[i] : i \in 1..Len(hist[p].calls)}
       /\ CommentOf(comments, p).sentiment = loc[p].sentiment
       /\ CommentOf(comments, p).sentiment_score = loc[p].sentiment_score

\* C15: with the settings present and every ledger write succeeding, the
\* invocation answers success whatever failed in classification, generation
\* and lead detection; the answer is built from the defaults {neutral, 0.5},
\* the fallback text and {is_lead false, cold} of the services that failed.
C15_ServiceFailuresAbsorbed ==
  \A p \in Procs :
    Done(p) /\ loc[p].settings # {} /\ hist[p].failed_writes = 0 =>
      /\ res[p].success /\ res[p].status = 200
      /\ hist[p].classify_failed =>
           /\ res[p].action = "replied"
           /\ res[p].reply.sentiment = "neutral"
           /\ loc[p].sentiment_score = 5
      /\ hist[p].generate_failed =>
           res[p].action = "replied" /\ res[p].reply.text = FallbackOnError
      /\ hist[p].lead_failed =>
           /\ res[p].action = "replied"
           /\ res[p].reply.is_sales_lead = JsFalse
           /\ res[p].reply.lead_temperature = "cold"

C15_Witness ==
  \E p \in Procs :
    /\ Done(p) /\ res[p].success /\ res[p].action = "replied"
    /\ hist[p].classify_failed /\ hist[p].generate_failed /\ hist[p].lead_failed
    /\ res[p].reply.text = FallbackOnError

\* C16: whatever the classifier backend answers, analyzeSentiment returns a
\* sentiment among the six categories and a score between 0 and 1.
C16_ClassificationInRange ==
  (leaf.fn = "analyzeSentiment" /\ leaf.returned) =>
    /\ ~leaf.result.raised
    /\ leaf.result.sentiment \in Sentiments
    /\ leaf.result.score \in 0..10

\* C17: the like write {is_liked: true} is made by an invocation exactly when
\* its sentiment is positive, the policy's auto_like_positive is set and the
\* platform is instagram, and an accepted write leaves is_liked true; no
\* other step of any invocation changes is_liked.
C17_AutoLikeExactlyWhen ==
  [][LET wanted(p) == /\ loc[p].sentiment = "positive"
                      /\ Policy(p).auto_like_positive = JsTrue
                      /\ req[p].platform = "instagram"
     IN
     /\ \A p \in Procs :
          StepFrom(p, "auto_like") =>
            IF wanted(p)
              THEN /\ hist'[p].calls =
                        Append(hist[p].calls, "comments.update.liked")
                   /\ hist'[p].failed_writes = hist[p].failed_writes =>
                        CommentOf(comments', p).is_liked
              ELSE hist' = hist /\ comments' = comments
     /\ \A c \in CommentIds :
          comments'[c].is_liked # comments[c].is_liked =>
            /\ comments'[c].is_liked
            /\ \E p \in Procs :
                 StepFrom(p, "auto_like") /\ wanted(p) /\ c = req[p].comment_id
    ]_vars

C17_Witness ==
  \E p \in Procs :
    /\ Done(p) /\ CommentOf(comments, p).is_liked
    /\ "comments.update.liked" \in {hist[p].calls[i] : i \in 1..Len(hist[p].calls)}
    /\ req[p].platform = "instagram"

\* C18: an instagram comment classified positive under a policy with
\* auto_like_positive set, with every ledger call succeeding, ends with
\* is_liked true, one AutoReply inserted by the invocation that references
\* the comment with reply_status pending and created_by ai, and the answer
\* success / replied: the like does not stop the invocation.
C18_PositiveInstagramFlow ==
  \A p \in Procs :
    /\ Done(p) /\ loc[p].sentiment = "positive"
    /\ req[p].platform = "instagram"
    /\ Policy(p).auto_like_positive = JsTrue
    /\ hist[p].failed_writes = 0
    => /\ CommentOf(comments, p).is_liked
       /\ hist[p].inserted = 1
       /\ Len(auto_replies) <= started
       /\ loc[p].autoReply \in 1..Len(auto_replies)
       /\ auto_replies[loc[p].autoReply].comment_id = req[p].comment_id
       /\ auto_replies[loc[p].autoReply].reply_status = "pending"
       /\ auto_replies[loc[p].autoReply].created_by = "ai"
       /\ res[p].success /\ res[p].action = "replied" /\ res[p].status = 200
       /\ res[p].reply.id = loc[p].autoReply

C18_Witness ==
  \E p \in Procs :
    /\ Done(p) /\ loc[p].sentiment = "positive" /\ req[p].platform = "instagram"
    /\ Policy(p).auto_like_positive = JsTrue
    /\ hist[p].failed_writes = 0
    /\ CommentOf(comments, p).is_liked /\ res[p].action = "replied"

\* C19: when a comment is classified again with the same sentiment and score
\* as in the pass before, the classification step writes the same pair as
\* that pass did and the comment carries it again, whatever the earlier pass
\* did after its own classification write (the lead rewrite included).
C19_SameClassificationSameWrite ==
  [][\A p \in Procs :
       StepFrom(p, "update_sentiment") =>
         LET before == classified[req[p].comment_id]
             now    == classified'[req[p].comment_id]
         IN before # <<>>
            /\ before.sentiment = now.sentiment
            /\ before.sentiment_score = now.sentiment_score
            => /\ now.written = before.written
               /\ CommentOf(comments', p).sentiment = before.written.sentiment
               /\ CommentOf(comments', p).sentiment_score =
                    before.written.sentiment_score
    ]_vars

C19_Witness ==
  \E p \in Procs :
    /\ pc[p] = "spam_gate"
    /\ classified[req[p].comment_id].repeated
    /\ CommentOf(comments, p).auto_reply_status = "replied"
    /\ CommentOf(comments, p).sentiment = "question"

\* the place of each external call in the handler's text
StepRank(name) ==
  CASE name = "settings.select" -> 1
    [] name = "openai.classify" -> 2
    [] name = "comments.update.sentiment" -> 3
    [] name = "comments.update.ignored" -> 4
    [] name = "comments.update.escalated" -> 5
    [] name = "comments.update.liked" -> 6
    [] name = "brand_voice.select" -> 7
    [] name = "generateReply.settings.select" -> 8
    [] name = "openai.generate" -> 9
    [] name = "auto_replies.insert" -> 10
    [] name = "openai.lead" -> 11
    [] name = "comments.update.lead" -> 12

\* the steps no invocation that gets past them leaves out; generateReply
\* leaves out the call of the backend when building the prompt throws
MandatoryRanks == {1, 2, 3, 7, 8, 10, 11}

\* C20: the calls of one invocation are made in the order settings load,
\* classification, classification write, spam gate, hate gate, auto-like
\* write, reply generation, AutoReply insert, lead detection and its write,
\* and the response comes last; no mandatory step is skipped, the insert
\* comes after generateReply has returned a text (without a call of the
\* backend only when building the prompt threw), lead detection is never
\* called before the insert has succeeded, and no gate is evaluated before
\* the sentiment is known.
C20_StepsInOrder ==
  \A p \in Procs :
    LET calls == hist[p].calls
        n == Len(calls)
        made(name) == \E i \in 1..n : calls[i] = name
    IN
    /\ \A i \in 1..(n - 1) : StepRank(calls[i]) < StepRank(calls[i + 1])
    /\ n > 0 =>
         \A m \in MandatoryRanks :
           m < StepRank(calls[n]) => \E i \in 1..n : StepRank(calls[i]) = m
    /\ \A i \in 1..n : calls[i] \in GateCalls => i = n
    /\ made("openai.lead") => hist[p].inserted = 1
    /\ made("auto_replies.insert") =>
         /\ made("brand_voice.select") /\ made("generateReply.settings.select")
         /\ loc[p].reply_text # ""
         /\ ~made("openai.generate") => PromptThrows(loc[p].gen_settings)
    /\ pc[p] \in {"spam_gate", "hate_gate"} =>
         made("comments.update.sentiment") /\ loc[p].sentiment # JsUndefined
    /\ res[p].sent > 0 => Done(p)

C20_Witness ==
  \E p \in Procs :
    /\ Done(p)
    /\ hist[p].calls =
         <<"settings.select", "openai.classify", "comments.update.sentiment",
           "comments.update.liked", "brand_voice.select",
           "generateReply.settings.select",
           "openai.generate", "auto_replies.insert", "openai.lead",
           "comments.update.lead">>

\* C21: nothing stands between an invocation and its insert: the settings
\* check passes whenever the user's row is read, and an insert the ledger
\* accepts appends a row for the comment whether or not the comment has an
\* AutoReply already or another invocation is working on it; so two
\* invocations running at the same time for one comment both insert.
C21_DuplicateInsertNotPrevented ==
  [][\A p \in Procs :
       /\ StepFrom(p, "load_settings") /\ SettingsOf(settings, req[p].user_id) # {}
          /\ faults' = faults
          => pc'[p] = "classify"
       /\ StepFrom(p, "insert") /\ faults' = faults
          => /\ Len(auto_replies') = Len(auto_replies) + 1
             /\ auto_replies'[Len(auto_replies')].comment_id = req[p].comment_id
             /\ SubSeq(auto_replies', 1, Len(auto_replies)) = auto_replies
             /\ pc'[p] = "detect"
    ]_vars

C21_Witness ==
  \E p, q \in Procs :
    /\ p # q
    /\ pc[p] = "detect" /\ pc[q] = "detect"
    /\ req[p].comment_id = req[q].comment_id
    /\ loc[p].autoReply # loc[q].autoReply
    /\ auto_replies[loc[p].autoReply].comment_id = req[p].comment_id
    /\ auto_replies[loc[q].autoReply].comment_id = req[p].comment_id

\* C22: a step of an invocation for comment c writes no Comment row but c,
\* appends no AutoReply but one referencing c, leaves auto_reply_settings
\* and brand_voice as they are, and leaves the locals and the response of
\* every other invocation untouched.
C22_WritesOnlyOwnRows ==
  [][/\ settings' = settings
     /\ brand_voice' = brand_voice
     /\ \A c \in CommentIds :
          comments'[c] # comments[c] =>
            \E p \in Procs : pc'[p] # pc[p] /\ req[p].comment_id = c
     /\ auto_replies' # auto_replies =>
          \E p \in Procs :
            /\ pc'[p] # pc[p]
            /\ auto_replies' =
                 Append(auto_replies, auto_replies'[Len(auto_replies')])
            /\ auto_replies'[Len(auto_replies')].comment_id = req[p].comment_id
            /\ auto_replies'[Len(auto_replies')].user_id = req[p].user_id
     /\ \A q \in Procs :
          pc'[q] = pc[q] => loc'[q] = loc[q] /\ res'[q] = res[q] /\ req'[q] = req[q]
    ]_vars

C22_Witness ==
  \E p, q \in Procs :
    /\ pc[p] = "detect" /\ pc[q] = "detect"
    /\ req[p].comment_id # req[q].comment_id
    /\ CommentOf(comments, p).sentiment = loc[p].sentiment
    /\ CommentOf(comments, q).sentiment = loc[q].sentiment
    /\ loc[p].sentiment # loc[q].sentiment
    /\ auto_replies[loc[p].autoReply].comment_id = req[p].comment_id
    /\ auto_replies[loc[q].autoReply].comment_id = req[q].comment_id

\* C23: the settings row is read once per invocation: the row generateReply
\* builds its prompt from (catchphrases, emojis, intro and outro lines,
\* blacklist) is the row the handler took the gate flags, the auto-like
\* flag, the tone and the language from, even when an update handler
\* commits while the invocation is in progress.
C23_SingleSettingsSnapshot ==
  \A p \in Procs :
    "generateReply.settings.select" \in CallsOf(p) /\ loc[p].gen_settings # {} =>
      Row(loc[p].gen_settings).catchphrases = Row(loc[p].settings).catchphrases

\* C24: generateReply has one fallback text: what it returns when the backend
\* yields empty or null content is what it returns when the backend call or
\* a store read before it throws.
C24_OneFallbackText ==
  /\ leaf.fn = "generateReply" /\ leaf.returned
  /\ \/ PromptThrows({[catchphrases |-> leaf.catchphrases]})
     \/ leaf.generator \in GeneratorFailures
     \/ leaf.generator.text \in {"", JsNull}
  => leaf.result.text = FallbackOnError

ErrorDetails == {InsertErrorDetail, NullRowErrorDetail}

\* C25: an invocation that fails after the settings check answers status 500
\* with the body {error: "Failed to generate reply"} and nothing else; no
\* response carries the message of the underlying error.
C25_GenericHardFailure ==
  \A p \in Procs :
    /\ res[p].error \notin ErrorDetails
    /\ Done(p) /\ loc[p].settings # {} /\ ~res[p].success =>
         /\ res[p].status = 500
         /\ res[p].error = "Failed to generate reply"
         /\ res[p].action = "" /\ res[p].reason = "" /\ res[p].reply = NoReply

C25_Witness ==
  \E p \in Procs :
    /\ Done(p) /\ res[p].status = 500 /\ loc[p].autoReply = 0
    /\ "comments.update.lead" \in CallsOf(p)
    /\ "auto_replies.insert" \in hist[p].failed_calls

\* the classifier said spam or hate and the policy does not suppress it
GateDeclines(p) ==
  \/ loc[p].sentiment = "spam" /\ Policy(p).ignore_spam # JsTrue
  \/ loc[p].sentiment = "hate" /\ Policy(p).ignore_hate_comments # JsTrue

\* C26 as stated: a finished invocation whose comment was classified spam
\* with ignore_spam unset, or hate with ignore_hate_comments unset or absent,
\* has generated a reply, inserted an AutoReply and answered replied.
C26_Original ==
  \A p \in Procs :
    Done(p) /\ loc[p].sentiment \in {"spam", "hate"} /\ GateDeclines(p) =>
      /\ ReplyGenerated(p)
      /\ hist[p].inserted = 1
      /\ res[p].success /\ res[p].action = "replied"

\* C26 (amended): an invocation is answered ignored or escalated only when
\* the sentiment and the flag of that gate both hold; a comment classified
\* spam with ignore_spam unset, or hate with ignore_hate_comments unset or
\* absent, makes no gate write, goes on to reply generation and the insert,
\* and is answered replied with one AutoReply inserted, or with the 500
\* error when the insert fails.
C26_GateNeedsFlag ==
  \A p \in Procs :
    /\ res[p].action = "ignored" =>
         loc[p].sentiment = "spam" /\ Policy(p).ignore_spam = JsTrue
    /\ res[p].action = "escalated" =>
         loc[p].sentiment = "hate" /\ Policy(p).ignore_hate_comments = JsTrue
    /\ Done(p) /\ loc[p].sentiment \in {"spam", "hate"} /\ GateDeclines(p) =>
         /\ GateCalls \cap CallsOf(p) = {}
         /\ ReplyGenerated(p)
         /\ "auto_replies.insert" \in CallsOf(p)
         /\ \/ /\ res[p].success /\ res[p].action = "replied"
               /\ hist[p].inserted = 1
            \/ /\ res[p].status = 500 /\ hist[p].inserted = 0
               /\ "auto_replies.insert" \in hist[p].failed_calls

C26_Witness ==
  \E p \in Procs :
    /\ Done(p) /\ loc[p].sentiment = "hate"
    /\ Policy(p).ignore_hate_comments = JsNull
    /\ res[p].action = "replied" /\ hist[p].inserted = 1

\* the step invocation p can take from the await it is suspended at
Advance(p) ==
  \/ LoadSettings(p) \/ Classify(p) \/ UpdateSentiment(p) \/ SpamGate(p)
  \/ HateGate(p) \/ AutoLike(p) \/ ReadBrandVoice(p) \/ GenerateReplyReads(p)
  \/ GenerateReplyCall(p) \/ InsertAutoReply(p) \/ DetectLead(p)
  \/ LeadWriteAndRespond(p)

\* C27: an invocation sends one response and no more: none while it is
\* running, exactly one when it has finished, on every path (no settings,
\* spam gate, hate gate, replied, a refused insert, an insert that resolves
\* with neither error nor row), and a running invocation always has a next
\* step, so none is left without a response.
C27_ExactlyOneResponse ==
  \A p \in Procs :
    /\ res[p].sent <= 1
    /\ Done(p) => res[p].sent = 1 /\ res[p].status \in {200, 404, 500}
    /\ pc[p] \notin {"idle", "off", "done"} =>
         res[p].sent = 0 /\ ENABLED Advance(p)

C27_Witness ==
  \E p \in Procs :
    /\ Done(p) /\ res[p].sent = 1 /\ res[p].status = 500
    /\ loc[p].autoReply = 0
    /\ LastCall(p) = "openai.lead"

\* C28: the tone and language stored on the AutoReply (tone_used,
\* language_used) and reported in the response are the tone and language
\* that were passed to generateReply, also for a settings row whose
\* default_tone or default_language is null or empty.
C28_RecordedToneIsUsedTone ==
  \A p \in Procs :
    Done(p) /\ res[p].action = "replied" =>
      /\ auto_replies[loc[p].autoReply].tone_used = loc[p].gen_tone
      /\ auto_replies[loc[p].autoReply].language_used = loc[p].gen_language
      /\ res[p].reply.tone = loc[p].gen_tone
      /\ res[p].reply.language = loc[p].gen_language

\* C29: a refused insert ends the invocation with the 500 answer and leaves
\* both ledgers as they were: lead detection is not called, no status write
\* was or is made by the invocation, and the sentiment, score and like-state
\* written earlier in the pass stay on the comment; afterwards the
\* invocation makes no call, and the auto-reply status of a comment is only
\* ever written by a gate or by the lead write.
C29_InsertFailureStopsThere ==
  [][\A p \in Procs :
       /\ StepFrom(p, "insert") /\ faults' # faults =>
            /\ pc'[p] = "done" /\ res'[p].status = 500
            /\ comments' = comments /\ auto_replies' = auto_replies
            /\ LET calls == {hist'[p].calls[i] : i \in 1..Len(hist'[p].calls)}
                   failed == hist'[p].failed_calls
               IN
               /\ "openai.lead" \notin calls
               /\ StatusCalls \cap calls = {}
               /\ "comments.update.sentiment" \notin failed =>
                    /\ CommentOf(comments', p).sentiment = loc[p].sentiment
                    /\ CommentOf(comments', p).sentiment_score =
                         loc[p].sentiment_score
               /\ "comments.update.liked" \in calls \ failed =>
                    CommentOf(comments', p).is_liked
       /\ pc[p] = "done" /\ pc'[p] = "done" => hist'[p] = hist[p]
       /\ \A c \in CommentIds :
            /\ comments'[c].auto_reply_status # comments[c].auto_reply_status
            /\ pc'[p] # pc[p]
            => pc[p] \in {"spam_gate", "hate_gate", "lead_write"}
    ]_vars

C29_Witness ==
  \E p \in Procs :
    /\ Done(p) /\ "auto_replies.insert" \in hist[p].failed_calls
    /\ LastCall(p) = "auto_replies.insert"
    /\ CommentOf(comments, p).sentiment = "positive"
    /\ CommentOf(comments, p).is_liked
    /\ CommentOf(comments, p).auto_reply_status = "pending"

\* C30: a one-time code is accepted at most once: whatever the interleaving
\* of the verifyOTP calls, at most one of them returns success for a given
\* otp_tokens row.
C30_CodeAcceptedOnce ==
  \A i \in DOMAIN otp.accepted : otp.accepted[i] <= 1

\* two calls of verifyOTP have both found the same unused row
C30_BothFoundTheRow ==
  \E c, d \in OtpCallers :
    /\ c # d /\ otp.pc[c] = "marking" /\ otp.pc[d] = "marking"
    /\ otp.found[c] = otp.found[d]

====
